---- MODULE Spec2Model ----
(***************************************************************************)
(* Model of the out-of-process tool-execution bridge of                    *)
(* bundled/tool: the frame codec and Channel (lsp_jsonrpc.py), the         *)
(* execution harness (lsp_utils.py), the worker's command loop             *)
(* (lsp_runner.py) and the process supervisor and request dispatcher       *)
(* (lsp_jsonrpc.py).                                                       *)
(*                                                                         *)
(* The module holds several specifications over one set of variables:      *)
(*   SpecCodec    JsonWriter.write / JsonReader.read on one byte stream    *)
(*   SpecReader   JsonReader.read on a stream that ends inside a frame     *)
(*   SpecChannel  threads writing frames through one JsonRpc               *)
(*   SpecClose    the same with threads calling JsonRpc.close              *)
(*   SpecHarness  threads calling run_module / run_api in one process      *)
(*   SpecWorker   the command loop of lsp_runner.py                        *)
(*   Spec         ProcessManager, get_or_start_json_rpc, run_over_json_rpc *)
(*   FairCalls    Spec with the caller threads scheduled                   *)
(*   SpecStop     the same with the host's teardown (stop_all_processes)   *)
(*   FairStop     SpecStop with monitor tasks and workers scheduled        *)
(*   SpecPool     the monitor tasks on ProcessManager._thread_pool         *)
(*   FairPool     SpecPool with the pool's threads scheduled               *)
(* A specification leaves the variables of the others at their initial     *)
(* values.                                                                 *)
(***************************************************************************)
EXTENDS Integers, Sequences, FiniteSets, TLC

VARIABLES
    \* ---- SpecCodec
    stream,      \* bytes written to the pipe and not yet read
    written,     \* payloads handed to JsonWriter.write, in order
    readLog,     \* what JsonReader.read returned, in order
    peer,        \* how the writing end of the pipe ended, if it has
    \* ---- SpecChannel
    pipe,        \* bytes the Channel's writer stream has received
    wclosed,     \* JsonWriter._writer.closed
    wlock,       \* holder of JsonWriter._lock, or NoThread
    wpc,         \* per writer thread: where it is in JsonWriter.write
    wcount,      \* per writer thread: frames written so far
    rclosed,     \* JsonReader._reader.closed
    closes,      \* the JsonRpc.close calls: where each caller is, calls ended
    \* ---- SpecHarness
    sys,         \* sys.argv, sys.stdout, sys.stderr, sys.stdin of the process
    cwd,         \* os.getcwd() of the process
    cwdLock,     \* holder of CWD_LOCK, or NoThread
    hpc,         \* per thread: "idle", or "target" while its target runs
    ncalls,      \* Harness calls started so far
    call,        \* the Harness call in progress or, finished, the last one
    \* ---- SpecWorker (with sys, cwd and ncalls of the worker process)
    EXIT_NOW,    \* lsp_runner.EXIT_NOW
    crashed,     \* the exception that ended the worker process, or None
    nrecv,       \* requests that have reached the worker so far
    recvLog,     \* the method of each request received and the field it lacks
    handled,     \* the last "run" request handled: request, RunResult, response
    sentIds,     \* the ids of the responses sent, in order
    rpc_run,     \* what run_over_json_rpc made of the last response it read
    \* ---- Spec
    procs,       \* the worker processes spawned so far, in order
    m_processes, \* ProcessManager._processes: workspace -> process, or NoProc
    m_rpc,       \* ProcessManager._rpc: workspace -> JsonRpc, or NoProc
    m_lock,      \* holder of ProcessManager._lock, or NoHolder
    tpc,         \* per caller thread: where it is in run_over_json_rpc
    tloc,        \* per caller thread: workspace, rpc, proc, msg_id of its call
    tres,        \* per caller thread: what its last call returned or raised
    nruns,       \* run_over_json_rpc calls started so far
    returned,    \* per workspace: the JsonRpc of a live worker that the latest
                 \* get_or_start_json_rpc returned, NoProc again once a worker
                 \* of the workspace exits
    host,        \* how far the host's teardown has come
    stopper,     \* the stop_all_processes call in progress or, ended, the last
    nstops,      \* stop_all_processes calls entered so far
    pool_down,   \* ProcessManager._thread_pool has been shut down
    \* ---- SpecPool
    pool         \* the workers started so far, one workspace each, in order

codecVars == <<stream, written, readLog, peer>>

chanVars == <<pipe, wclosed, wlock, wpc, wcount, rclosed, closes>>

harnessVars == <<sys, cwd, cwdLock, hpc, ncalls, call>>

workerVars == <<EXIT_NOW, crashed, nrecv, recvLog, handled, sentIds, rpc_run>>

regVars == <<m_processes, m_rpc, m_lock>>

callVars == <<tpc, tloc, tres, nruns>>

stopVars == <<host, stopper, nstops, pool_down>>

supVars == <<procs, regVars, callVars, returned, stopVars, pool>>

vars == <<codecVars, chanVars, harnessVars, workerVars, supVars>>

(***************************************************************************)
(* Bounds                                                                  *)
(***************************************************************************)
\* longest string inside a payload
MaxLen == 2

\* most bytes by which a frame's body falls short of its declared length
MaxShort == 2

\* threads that call JsonRpc.close, and the calls they make in all
NumClosers == 2

MaxCloseCalls == 3

\* threads writing through one Channel, and the frames each of them writes
NumWriters == 2

FramesPerWriter == 2

\* threads calling the Harness in one process, Harness calls in one run, and
\* writes of one target to its output streams
NumCallers == 2

MaxCalls == 3

MaxWrites == 2

\* requests one worker receives
MaxRequests == 3

\* threads calling run_over_json_rpc, the calls they make in one run, and the
\* worker processes spawned in one run
NumThreads == 2

MaxRuns == 3

MaxProcs == 2

\* the calls made in a run that ends with the host's teardown
MaxStopRuns == 2

\* the workers started in a run of the monitor pool, and those of them that exit
MaxPoolProcs == 11

MaxExits == 2

(***************************************************************************)
(* Sequence helpers                                                        *)
(***************************************************************************)
Drop(s, n) == SubSeq(s, n + 1, Len(s))

Take(s, n) == SubSeq(s, 1, IF n < Len(s) THEN n ELSE Len(s))

StartsWith(s, p) == Len(s) >= Len(p) /\ SubSeq(s, 1, Len(p)) = p

RECURSIVE Flatten(_)
Flatten(ss) == IF ss = <<>> THEN <<>> ELSE Head(ss) \o Flatten(Tail(ss))

(***************************************************************************)
(* Characters are code points, bytes are 0..255.                           *)
(***************************************************************************)
Ch == [quote |-> 34, backslash |-> 92, lf |-> 10, cr |-> 13, tab |-> 9,
       space |-> 32, lbrace |-> 123, rbrace |-> 125, colon |-> 58,
       n |-> 110, r |-> 114, t |-> 116, u |-> 117, a |-> 97, eacute |-> 233,
       zero |-> 48, nine |-> 57]

\* the characters payload strings are drawn from: a plain letter, the two
\* characters JSON must escape, a line feed (the reader is line based) and a
\* non-ASCII character (two bytes in UTF-8)
Alphabet == {Ch.a, Ch.quote, Ch.backslash, Ch.lf, Ch.eacute}

Strings(n) == UNION {[1..k -> Alphabet] : k \in 0..n}

\* a payload is a JSON string, or a JSON object {"id": <string>}
Payloads == [type : {"str", "obj"}, s : Strings(MaxLen)]

\* the payloads of a frame that follows another frame on the stream
Followers == [type : {"str", "obj"}, s : Strings(1)]

\* "Content-Length: "
CONTENT_LENGTH ==
    <<67, 111, 110, 116, 101, 110, 116, 45, 76, 101, 110, 103, 116, 104, 58, 32>>

\* "id"
IdKey == <<105, 100>>

(***************************************************************************)
(* str.encode("utf-8") and bytes.decode("utf-8"), for code points < 2048   *)
(***************************************************************************)
Utf8Char(c) == IF c < 128 THEN <<c>> ELSE <<192 + (c \div 64), 128 + (c % 64)>>

RECURSIVE Utf8Encode(_)
Utf8Encode(cs) ==
    IF cs = <<>> THEN <<>> ELSE Utf8Char(Head(cs)) \o Utf8Encode(Tail(cs))

\* to_str: a lone or truncated multi-byte sequence cannot be decoded
Undecodable == <<-1>>

RECURSIVE to_str(_)
to_str(bs) ==
    IF bs = <<>> THEN <<>>
    ELSE IF Head(bs) < 128
         THEN LET rest == to_str(Tail(bs))
              IN IF rest = Undecodable THEN Undecodable ELSE <<Head(bs)>> \o rest
    ELSE IF Head(bs) >= 192 /\ Len(bs) >= 2 /\ bs[2] >= 128 /\ bs[2] < 192
         THEN LET rest == to_str(Drop(bs, 2))
              IN IF rest = Undecodable THEN Undecodable
                 ELSE <<(Head(bs) - 192) * 64 + (bs[2] - 128)>> \o rest
    ELSE Undecodable

(***************************************************************************)
(* json.dumps (ensure_ascii=True, separators ", " and ": ")                *)
(***************************************************************************)
HexDigit(d) == IF d < 10 THEN Ch.zero + d ELSE Ch.a + (d - 10)

Hex4(c) == <<HexDigit((c \div 4096) % 16), HexDigit((c \div 256) % 16),
             HexDigit((c \div 16) % 16), HexDigit(c % 16)>>

EscapeChar(c) ==
    IF c = Ch.quote THEN <<Ch.backslash, Ch.quote>>
    ELSE IF c = Ch.backslash THEN <<Ch.backslash, Ch.backslash>>
    ELSE IF c = Ch.lf THEN <<Ch.backslash, Ch.n>>
    ELSE IF c = Ch.cr THEN <<Ch.backslash, Ch.r>>
    ELSE IF c = Ch.tab THEN <<Ch.backslash, Ch.t>>
    ELSE IF c < 32 \/ c > 126 THEN <<Ch.backslash, Ch.u>> \o Hex4(c)
    ELSE <<c>>

RECURSIVE EscapeAll(_)
EscapeAll(cs) ==
    IF cs = <<>> THEN <<>> ELSE EscapeChar(Head(cs)) \o EscapeAll(Tail(cs))

DumpString(s) == <<Ch.quote>> \o EscapeAll(s) \o <<Ch.quote>>

JsonDumps(data) ==
    IF data.type = "str" THEN DumpString(data.s)
    ELSE <<Ch.lbrace>> \o DumpString(IdKey) \o <<Ch.colon, Ch.space>>
         \o DumpString(data.s) \o <<Ch.rbrace>>

RECURSIVE Digits(_)
Digits(n) ==
    IF n < 10 THEN <<Ch.zero + n>> ELSE Digits(n \div 10) \o <<Ch.zero + (n % 10)>>

(***************************************************************************)
(* JsonWriter.write: the bytes of one frame                                *)
(***************************************************************************)
\* a plausible slip: the length of the payload instead of the encoded body
ContentLengthOfData(data, content) == Len(data.s)

\* length = len(content.encode("utf-8"))
ContentLength(data, content) == Len(Utf8Encode(content))

WriteFrame(data) ==
    LET content == JsonDumps(data)
        length == ContentLength(data, content)
    IN Utf8Encode(CONTENT_LENGTH \o Digits(length)
                  \o <<Ch.cr, Ch.lf, Ch.cr, Ch.lf>> \o content)

(***************************************************************************)
(* json.loads, for the values JsonDumps produces                           *)
(***************************************************************************)
IsWs(c) == c \in {Ch.space, Ch.tab, Ch.lf, Ch.cr}

RECURSIVE SkipWs(_)
SkipWs(cs) == IF cs # <<>> /\ IsWs(Head(cs)) THEN SkipWs(Tail(cs)) ELSE cs

AllWs(cs) == SkipWs(cs) = <<>>

HexVal(d) ==
    IF d >= 48 /\ d <= 57 THEN d - 48
    ELSE IF d >= 97 /\ d <= 102 THEN d - 87
    ELSE IF d >= 65 /\ d <= 70 THEN d - 55
    ELSE -1

NoString == [ok |-> FALSE, s |-> <<>>, rest |-> <<>>]

\* the characters after an opening quote, up to the closing quote
RECURSIVE ParseStringBody(_, _)
ParseStringBody(cs, acc) ==
    IF cs = <<>> THEN NoString
    ELSE IF Head(cs) = Ch.quote THEN [ok |-> TRUE, s |-> acc, rest |-> Tail(cs)]
    ELSE IF Head(cs) < 32 THEN NoString
    ELSE IF Head(cs) # Ch.backslash
         THEN ParseStringBody(Tail(cs), Append(acc, Head(cs)))
    ELSE IF Len(cs) < 2 THEN NoString
    ELSE IF cs[2] = Ch.quote THEN ParseStringBody(Drop(cs, 2), Append(acc, Ch.quote))
    ELSE IF cs[2] = Ch.backslash
         THEN ParseStringBody(Drop(cs, 2), Append(acc, Ch.backslash))
    ELSE IF cs[2] = Ch.n THEN ParseStringBody(Drop(cs, 2), Append(acc, Ch.lf))
    ELSE IF cs[2] = Ch.r THEN ParseStringBody(Drop(cs, 2), Append(acc, Ch.cr))
    ELSE IF cs[2] = Ch.t THEN ParseStringBody(Drop(cs, 2), Append(acc, Ch.tab))
    ELSE IF cs[2] = Ch.u /\ Len(cs) >= 6
            /\ \A i \in 3..6 : HexVal(cs[i]) >= 0
         THEN ParseStringBody(Drop(cs, 6),
                  Append(acc, HexVal(cs[3]) * 4096 + HexVal(cs[4]) * 256
                              + HexVal(cs[5]) * 16 + HexVal(cs[6])))
    ELSE NoString

ParseString(cs) ==
    IF cs # <<>> /\ Head(cs) = Ch.quote THEN ParseStringBody(Tail(cs), <<>>)
    ELSE NoString

\* json.JSONDecodeError
JsonError == [type |-> "JSONDecodeError", s |-> <<>>]

ParseObject(cs) ==
    LET key == ParseString(SkipWs(cs))
        afterKey == SkipWs(key.rest)
        val == ParseString(SkipWs(Tail(afterKey)))
        afterVal == SkipWs(val.rest)
    IN IF ~key.ok \/ afterKey = <<>> \/ Head(afterKey) # Ch.colon THEN JsonError
       ELSE IF ~val.ok \/ afterVal = <<>> \/ Head(afterVal) # Ch.rbrace
               \/ ~AllWs(Tail(afterVal)) THEN JsonError
       ELSE IF key.s # IdKey THEN [type |-> "other", s |-> val.s]
       ELSE [type |-> "obj", s |-> val.s]

JsonLoads(content) ==
    LET cs == SkipWs(content)
    IN IF cs = <<>> \/ content = Undecodable THEN JsonError
       ELSE IF Head(cs) = Ch.lbrace THEN ParseObject(Tail(cs))
       ELSE LET str == ParseString(cs)
            IN IF str.ok /\ AllWs(str.rest) THEN [type |-> "str", s |-> str.s]
               ELSE JsonError

(***************************************************************************)
(* JsonReader.read on the bytes bs of a stream whose writer has written    *)
(* them all: what it returns or raises, and the bytes it leaves unread.    *)
(***************************************************************************)
\* reader.readline(): up to and including the first line feed
RECURSIVE LineEnd(_, _)
LineEnd(bs, i) ==
    IF i > Len(bs) THEN Len(bs) ELSE IF bs[i] = Ch.lf THEN i ELSE LineEnd(bs, i + 1)

ReadLine(bs) ==
    [line |-> SubSeq(bs, 1, LineEnd(bs, 1)), rest |-> Drop(bs, LineEnd(bs, 1))]

\* int(text): -1 stands for ValueError
RECURSIVE DigitsValue(_, _)
DigitsValue(cs, acc) ==
    IF cs = <<>> THEN acc
    ELSE IF Head(cs) < Ch.zero \/ Head(cs) > Ch.nine THEN -1
    ELSE DigitsValue(Tail(cs), acc * 10 + (Head(cs) - Ch.zero))

RECURSIVE StripRight(_)
StripRight(cs) ==
    IF cs # <<>> /\ IsWs(cs[Len(cs)]) THEN StripRight(SubSeq(cs, 1, Len(cs) - 1))
    ELSE cs

ParseInt(cs) ==
    LET body == StripRight(SkipWs(cs))
    IN IF body = <<>> THEN -1 ELSE DigitsValue(body, 0)

Raised(exc, rest) == [status |-> exc, value |-> JsonError, rest |-> rest]

\* while line: line = to_str(self._readline()).strip()
RECURSIVE SkipHeaders(_)
SkipHeaders(bs) ==
    IF bs = <<>> THEN [ok |-> FALSE, rest |-> bs]
    ELSE LET l == ReadLine(bs)
         IN IF AllWs(to_str(l.line)) THEN [ok |-> TRUE, rest |-> l.rest]
            ELSE SkipHeaders(l.rest)

ReadBody(bs, length) ==
    LET hdr == SkipHeaders(bs)
        value == JsonLoads(to_str(Take(hdr.rest, length)))
    IN IF ~hdr.ok THEN Raised("EOFError", hdr.rest)
       ELSE IF value = JsonError THEN Raised("ValueError", Drop(hdr.rest, length))
       ELSE [status |-> "ok", value |-> value, rest |-> Drop(hdr.rest, length)]

\* while not length: ... ; then the rest of read()
RECURSIVE JsonReaderRead(_)
JsonReaderRead(bs) ==
    IF bs = <<>> THEN Raised("EOFError", bs)
    ELSE LET l == ReadLine(bs)
             line == to_str(l.line)
             length == ParseInt(Drop(line, Len(CONTENT_LENGTH)))
         IN IF line = Undecodable THEN Raised("ValueError", l.rest)
            ELSE IF ~StartsWith(line, CONTENT_LENGTH) THEN JsonReaderRead(l.rest)
            ELSE IF length = -1 THEN Raised("ValueError", l.rest)
            ELSE IF length = 0 THEN JsonReaderRead(l.rest)
            ELSE ReadBody(l.rest, length)

(***************************************************************************)
(* Initial values of each specification's variables                        *)
(***************************************************************************)
NoThread == 0

Writers == 1..NumWriters

Closers == 1..NumClosers

ChanIdle ==
    /\ pipe = <<>>
    /\ wclosed = FALSE
    /\ wlock = NoThread
    /\ wpc = [t \in Writers |-> "idle"]
    /\ wcount = [t \in Writers |-> 0]
    /\ rclosed = FALSE
    /\ closes = [pc |-> [c \in Closers |-> "idle"], begun |-> 0, ended |-> 0,
                 suppressed |-> 0]

Callers == 1..NumCallers

\* SERVER_CWD = os.getcwd() when lsp_utils is loaded
SERVER_CWD == "/srv"

\* the value of a parameter that is None
None == "None"

\* the streams and the argument vector the process starts with; a stream k > 0
\* is a CustomIO created by the k-th Harness call
RealStream == 0

HostSys == [argv |-> "host", stdout |-> RealStream, stderr |-> RealStream,
            stdin |-> RealStream]

\* no CustomIO("<stdin>") was created
NoInput == [bytes |-> <<>>, pos |-> 0]

NoCall ==
    [id |-> 0, entry |-> None, args |-> None, phase |-> "none", before |-> None,
     old |-> None, changed |-> FALSE, input |-> NoInput, out |-> <<>>, err |-> <<>>,
     wroteOut |-> <<>>, wroteErr |-> <<>>, end |-> None, result |-> None]

HarnessIdle ==
    /\ sys = HostSys
    /\ cwd = SERVER_CWD
    /\ cwdLock = NoThread
    /\ hpc = [t \in Callers |-> "idle"]
    /\ ncalls = 0
    /\ call = NoCall

NoRun ==
    [id |-> 0, msg |-> None, stdin |-> RealStream, raised |-> FALSE, result |-> None,
     response |-> None]

\* RpcRunResult.exception when no exception is given
NoException == <<None>>

NoRpcRun ==
    [id |-> 0, msg_id |-> 0,
     result |-> [stdout |-> <<>>, stderr |-> <<>>, exception |-> NoException]]

WorkerIdle ==
    /\ EXIT_NOW = FALSE
    /\ crashed = None
    /\ nrecv = 0
    /\ recvLog = <<>>
    /\ handled = NoRun
    /\ sentIds = <<>>
    /\ rpc_run = NoRpcRun

Threads == 1..NumThreads

\* the workspace keys
Workspaces == {"ws", "ws2"}

NoProc == 0

NoHolder == <<"free">>

NoLocals ==
    [workspace |-> None, rpc |-> NoProc, proc |-> NoProc, msg_id |-> 0,
     prev |-> NoProc]

NoOutcome ==
    [kind |-> "none", id |-> 0, got |-> 0, exc |-> None,
     result |-> [stdout |-> <<>>, stderr |-> <<>>, exception |-> NoException]]

NoStop == [pc |-> "idle", snapshot |-> [w \in Workspaces |-> NoProc],
           visited |-> {}, exc |-> None]

SupIdle ==
    /\ procs = <<>>
    /\ m_processes = [w \in Workspaces |-> NoProc]
    /\ m_rpc = [w \in Workspaces |-> NoProc]
    /\ m_lock = NoHolder
    /\ tpc = [t \in Threads |-> "idle"]
    /\ tloc = [t \in Threads |-> NoLocals]
    /\ tres = [t \in Threads |-> NoOutcome]
    /\ nruns = 0
    /\ returned = [w \in Workspaces |-> NoProc]
    /\ host = "running"
    /\ stopper = NoStop
    /\ nstops = 0
    /\ pool_down = FALSE
    /\ pool = <<>>

(***************************************************************************)
(* SpecCodec: one writer and one reader on a pipe.  A first frame with any *)
(* payload, then a following frame; the reader reads whole frames.         *)
(***************************************************************************)
\* the writing end is open
NoPeer == [ended |-> FALSE, header |-> "none", declared |-> 0, body |-> 0]

CodecIdle ==
    /\ stream = <<>>
    /\ written = <<>>
    /\ readLog = <<>>
    /\ peer = NoPeer

CodecInit == CodecIdle /\ ChanIdle /\ HarnessIdle /\ WorkerIdle /\ SupIdle

\* JsonWriter.write(data) on an open stream
CodecWrite ==
    /\ Len(written) < 2
    /\ \E data \in (IF written = <<>> THEN Payloads ELSE Followers) :
          /\ stream' = stream \o WriteFrame(data)
          /\ written' = Append(written, data)
    /\ UNCHANGED <<readLog, peer, chanVars, harnessVars, workerVars, supVars>>

\* JsonReader.read(); it blocks while the pipe is empty
CodecRead ==
    /\ stream # <<>>
    /\ LET res == JsonReaderRead(stream)
       IN /\ readLog' = Append(readLog, [status |-> res.status, value |-> res.value])
          /\ stream' = res.rest
    /\ UNCHANGED <<written, peer, chanVars, harnessVars, workerVars, supVars>>

CodecNext == CodecWrite \/ CodecRead

SpecCodec == CodecInit /\ [][CodecNext]_vars

\* the frames of the payloads written and not yet read
UnreadFrames ==
    Flatten([i \in 1..(Len(written) - Len(readLog)) |->
                 WriteFrame(written[Len(readLog) + i])])

\* C6: reading the bytes JsonWriter.write emitted for P returns a value equal
\* to P and consumes exactly the bytes of that frame, so that the frame that
\* follows on the stream is read intact.
RoundTrip ==
    /\ Len(readLog) <= Len(written)
    /\ \A i \in 1..Len(readLog) :
          readLog[i] = [status |-> "ok", value |-> written[i]]
    /\ Len(readLog) <= Len(written) => stream = UnreadFrames

\* a payload with escaped and non-ASCII characters and its follower were both
\* written before the first read, and both have been read back
RoundTripWitness ==
    /\ Len(readLog) = 2
    /\ written[1] = [type |-> "obj", s |-> <<Ch.eacute, Ch.quote>>]
    /\ written[2].s = <<Ch.lf>>
    /\ readLog[2].value = written[2]
    /\ stream = <<>>

(***************************************************************************)
(* SpecReader: JsonReader.read on a pipe whose writing end has been closed *)
(* before a whole frame was written.                                       *)
(***************************************************************************)
\* JsonWriter.write in a process that ends during the write: the first n bytes
\* of the frame have reached the pipe
FrameCut ==
    /\ ~peer.ended
    /\ \E data \in Payloads :
          \E n \in 0..(Len(WriteFrame(data)) - 1) :
             LET hlen == Len(WriteFrame(data)) - Len(Utf8Encode(JsonDumps(data)))
             IN /\ stream' = Take(WriteFrame(data), n)
                /\ peer' = [ended |-> TRUE,
                            header |-> IF n >= hlen THEN "full"
                                       ELSE IF n < Len(CONTENT_LENGTH) THEN "none"
                                       ELSE "partial",
                            declared |-> Len(Utf8Encode(JsonDumps(data))),
                            body |-> IF n >= hlen THEN n - hlen ELSE 0]
    /\ UNCHANGED <<written, readLog, chanVars, harnessVars, workerVars, supVars>>

\* a process on the other end of the pipe that writes a header declaring more
\* bytes than the body it writes before it ends
ShortFrame ==
    /\ ~peer.ended
    /\ \E data \in Payloads, short \in 1..MaxShort :
          LET content == Utf8Encode(JsonDumps(data))
          IN /\ stream' = Utf8Encode(CONTENT_LENGTH \o Digits(Len(content) + short)
                                     \o <<Ch.cr, Ch.lf, Ch.cr, Ch.lf>>) \o content
             /\ peer' = [ended |-> TRUE, header |-> "full",
                         declared |-> Len(content) + short, body |-> Len(content)]
    /\ UNCHANGED <<written, readLog, chanVars, harnessVars, workerVars, supVars>>

\* JsonReader.read() on the ended stream
ReadAtEnd ==
    /\ peer.ended
    /\ readLog = <<>>
    /\ LET res == JsonReaderRead(stream)
       IN /\ readLog' = <<[status |-> res.status, value |-> res.value]>>
          /\ stream' = res.rest
    /\ UNCHANGED <<written, peer, chanVars, harnessVars, workerVars, supVars>>

ReaderNext == FrameCut \/ ShortFrame \/ ReadAtEnd

ReaderInit == CodecIdle /\ ChanIdle /\ HarnessIdle /\ WorkerIdle /\ SupIdle

SpecReader == ReaderInit /\ [][ReaderNext]_vars

\* C22: JsonReader.read raises EOFError both when the stream ends before a
\* Content-Length header is found and when fewer bytes than the header declares
\* follow it; in neither case does it return a payload.
ShortReadRaisesEOF ==
    (/\ readLog # <<>>
     /\ peer.ended
     /\ \/ peer.header = "none"
        \/ peer.header = "full" /\ peer.body < peer.declared)
        => readLog[1].status = "EOFError"

(***************************************************************************)
(* SpecChannel: NumWriters threads each send FramesPerWriter frames with   *)
(* JsonRpc.send_data on one Channel, while JsonRpc.close may close it.     *)
(* The stream hands a frame to the pipe in two parts (its header, then its *)
(* body), as a buffered stream does with a frame larger than its buffer.   *)
(***************************************************************************)
\* the j-th payload of writer t; the payloads differ in length
FramePayload(t, j) ==
    [type |-> "obj",
     s |-> <<Ch.a + t, Ch.zero + j>> \o (IF t = 1 THEN <<Ch.quote>> ELSE <<>>)]

FrameHeaderLen(data) == Len(WriteFrame(data)) - Len(Utf8Encode(JsonDumps(data)))

\* no mutual exclusion between writers
LockAlwaysFree(t) == TRUE

\* with self._lock: the lock is free
LockFree(t) == wlock = NoThread

\* if self._writer.closed: raise StreamClosedException()
WriteCheckClosed(t) ==
    /\ wpc[t] = "idle"
    /\ wcount[t] < FramesPerWriter
    /\ wpc' = [wpc EXCEPT ![t] = IF wclosed THEN "StreamClosedException" ELSE "lock"]
    /\ UNCHANGED <<pipe, wclosed, wlock, wcount, rclosed, closes, codecVars, harnessVars,
                   workerVars, supVars>>

\* with self._lock: ... self._writer.write(...): the first part reaches the pipe;
\* writing to a stream closed meanwhile raises ValueError
WriteAcquire(t) ==
    /\ wpc[t] = "lock"
    /\ LockFree(t)
    /\ IF wclosed
       THEN /\ wpc' = [wpc EXCEPT ![t] = "ValueError"]
            /\ UNCHANGED <<pipe, wlock>>
       ELSE /\ wlock' = t
            /\ pipe' = pipe \o Take(WriteFrame(FramePayload(t, wcount[t] + 1)),
                                    FrameHeaderLen(FramePayload(t, wcount[t] + 1)))
            /\ wpc' = [wpc EXCEPT ![t] = "flush"]
    /\ UNCHANGED <<wclosed, wcount, rclosed, closes, codecVars, harnessVars, workerVars,
                   supVars>>

\* self._writer.flush(): the rest of the frame reaches the pipe; the lock is
\* released on leaving the with block
WriteFlush(t) ==
    /\ wpc[t] = "flush"
    /\ pipe' = pipe \o Drop(WriteFrame(FramePayload(t, wcount[t] + 1)),
                            FrameHeaderLen(FramePayload(t, wcount[t] + 1)))
    /\ wlock' = IF wlock = t THEN NoThread ELSE wlock
    /\ wcount' = [wcount EXCEPT ![t] = @ + 1]
    /\ wpc' = [wpc EXCEPT ![t] = "idle"]
    /\ UNCHANGED <<wclosed, rclosed, closes, codecVars, harnessVars, workerVars, supVars>>

\* JsonWriter.close(): with self._lock: if not closed: close()
WriterClose ==
    /\ wlock = NoThread
    /\ ~wclosed
    /\ wclosed' = TRUE
    /\ UNCHANGED <<pipe, wlock, wpc, wcount, rclosed, closes, codecVars, harnessVars,
                   workerVars, supVars>>

ChanNext ==
    \/ \E t \in Writers : WriteCheckClosed(t)
    \/ \E t \in Writers : WriteAcquire(t)
    \/ \E t \in Writers : WriteFlush(t)
    \/ WriterClose

ChanInit == CodecIdle /\ ChanIdle /\ HarnessIdle /\ WorkerIdle /\ SupIdle

SpecChannel == ChanInit /\ [][ChanNext]_vars

(***************************************************************************)
(* SpecClose: NumClosers threads call JsonRpc.close, MaxCloseCalls times   *)
(* in all, while the writers of SpecChannel write.  Closing a stream that  *)
(* is open may raise (its flush or the close of its descriptor fails); the *)
(* stream is closed all the same.                                          *)
(***************************************************************************)
\* nothing is suppressed
CloseSuppressedNone(raised) == FALSE

\* with contextlib.suppress(Exception): what a close raises is an Exception
CloseSuppressed(raised) == TRUE

\* JsonRpc.close is called
CloseBegin(c) ==
    /\ closes.pc[c] \in {"idle", "done"}
    /\ closes.begun < MaxCloseCalls
    /\ closes' = [closes EXCEPT !.pc[c] = "reader", !.begun = @ + 1]
    /\ UNCHANGED <<pipe, wclosed, wlock, wpc, wcount, rclosed, codecVars, harnessVars,
                   workerVars, supVars>>

\* with contextlib.suppress(Exception): self._reader.close(), which is
\* if not self._reader.closed: self._reader.close()
CloseReader(c) ==
    /\ closes.pc[c] = "reader"
    /\ \E raised \in (IF rclosed THEN {FALSE} ELSE BOOLEAN) :
          closes' = [closes EXCEPT
                        !.pc[c] = IF raised /\ ~CloseSuppressed(raised) THEN "raised"
                                  ELSE "writer",
                        !.suppressed = IF raised /\ CloseSuppressed(raised)
                                       THEN @ + 1 ELSE @]
    /\ rclosed' = TRUE
    /\ UNCHANGED <<pipe, wclosed, wlock, wpc, wcount, codecVars, harnessVars,
                   workerVars, supVars>>

\* with contextlib.suppress(Exception): self._writer.close(), which is
\* with self._lock: if not self._writer.closed: self._writer.close()
CloseWriter(c) ==
    /\ closes.pc[c] = "writer"
    /\ wlock = NoThread
    /\ \E raised \in (IF wclosed THEN {FALSE} ELSE BOOLEAN) :
          closes' = [closes EXCEPT
                        !.pc[c] = IF raised /\ ~CloseSuppressed(raised) THEN "raised"
                                  ELSE "done",
                        !.ended = IF raised /\ ~CloseSuppressed(raised) THEN @
                                  ELSE @ + 1,
                        !.suppressed = IF raised /\ CloseSuppressed(raised)
                                       THEN @ + 1 ELSE @]
    /\ wclosed' = TRUE
    /\ UNCHANGED <<pipe, wlock, wpc, wcount, rclosed, codecVars, harnessVars,
                   workerVars, supVars>>

CloseNext ==
    \/ \E t \in Writers : WriteCheckClosed(t)
    \/ \E t \in Writers : WriteAcquire(t)
    \/ \E t \in Writers : WriteFlush(t)
    \/ \E c \in Closers : CloseBegin(c)
    \/ \E c \in Closers : CloseReader(c)
    \/ \E c \in Closers : CloseWriter(c)

SpecClose == ChanInit /\ [][CloseNext]_vars

\* C24: no call of JsonRpc.close raises, whatever state the Channel is in and
\* however many calls were made before; once a call has returned, the reader
\* stream and the writer stream are both closed.
CloseIdempotent ==
    /\ \A c \in Closers : closes.pc[c] # "raised"
    /\ closes.ended >= 1 => (rclosed /\ wclosed)

\* three calls have returned, two of them made at the same time; closing the
\* reader raised and closing the writer raised, and a writer was refused
CloseIdempotentWitness ==
    /\ closes.ended = MaxCloseCalls
    /\ closes.suppressed = 2
    /\ rclosed /\ wclosed
    /\ \E t \in Writers : wpc[t] = "StreamClosedException"

\* every frame on the read side, as JsonReader.read returns them
RECURSIVE ReadAll(_)
ReadAll(bs) ==
    IF bs = <<>> THEN <<>>
    ELSE LET res == JsonReaderRead(bs)
         IN IF res.status = "ok" THEN <<res.value>> \o ReadAll(res.rest)
            ELSE <<[type |-> res.status, s |-> <<>>]>>

RECURSIVE FramesOf(_, _)
FramesOf(t, values) ==
    IF values = <<>> THEN <<>>
    ELSE IF Head(values).s # <<>> /\ Head(values).s[1] = Ch.a + t
         THEN <<Head(values)>> \o FramesOf(t, Tail(values))
         ELSE FramesOf(t, Tail(values))

RECURSIVE SumCounts(_)
SumCounts(n) == IF n = 0 THEN 0 ELSE wcount[n] + SumCounts(n - 1)

\* C5: whenever no write is in progress, the stream holds exactly the frames
\* written so far (N*M of them once N threads have written M frames each), each of
\* them intact, and the frames of each thread appear in that thread's order.
FramesIntact ==
    (\A t \in Writers : wpc[t] # "flush") =>
        LET values == ReadAll(pipe)
        IN /\ Len(values) = SumCounts(NumWriters)
           /\ \A t \in Writers :
                 FramesOf(t, values) = [j \in 1..wcount[t] |-> FramePayload(t, j)]

\* all writers have written all their frames, and a frame of the second writer
\* lies between two frames of the first
FramesIntactWitness ==
    /\ \A t \in Writers : wcount[t] = FramesPerWriter /\ wpc[t] = "idle"
    /\ LET values == ReadAll(pipe)
       IN /\ Len(values) = NumWriters * FramesPerWriter
          /\ values[1] = FramePayload(1, 1)
          /\ values[2] = FramePayload(2, 1)
          /\ values[3] = FramePayload(1, 2)

\* C21: a step of JsonWriter.write taken when the stream is already closed ends
\* the write with StreamClosedException and puts no byte on the pipe, wherever
\* close fell between the steps of the write.
ClosedWriteRaisesClosed ==
    [][\A t \in Writers :
          (wclosed /\ wpc[t] \in {"idle", "lock"} /\ wpc'[t] # wpc[t]) =>
              (wpc'[t] = "StreamClosedException" /\ pipe' = pipe)]_vars

(***************************************************************************)
(* SpecHarness: threads of one process call run_module / run_api.          *)
(*                                                                         *)
(* A target writes to sys.stdout and sys.stderr and then ends in one of    *)
(* three ways: it returns, it raises SystemExit, or it raises another      *)
(* exception.                                                              *)
(***************************************************************************)
Paths == {"/srv", "/proj", "/proj/"}

\* os.path.normcase(os.path.normpath(p)), and the path os.getcwd() reports
NormPath(p) == IF p = "/proj/" THEN "/proj" ELSE p

is_same_path(p1, p2) == NormPath(p1) = NormPath(p2)

Ends == {"return", "SystemExit", "Exception"}

HarnessArgs ==
    [argv : {"--flag"}, use_stdin : BOOLEAN, cwd : Paths, source : {None, "code"}]

\* the characters of a source: a letter, a carriage return, a line feed and a
\* non-ASCII character
SourceText(source) ==
    IF source = "code" THEN <<Ch.a, Ch.cr, Ch.lf, Ch.eacute>> ELSE <<>>

\* str_input.write(source) on CustomIO("<stdin>", encoding="utf-8", newline="\n"):
\* a line feed is written as it is; the position is behind what was written
StdinWrite(text) == [bytes |-> Utf8Encode(text), pos |-> Len(Utf8Encode(text))]

\* the buffer left where the write ended
StdinNoSeek(buffer) == buffer

\* str_input.seek(0)
StdinSeek(buffer) == [buffer EXCEPT !.pos = 0]

\* sys.stdin.read() by the target: the bytes from the position on, decoded; with
\* newline="\n" no line ending is translated
StdinRead(buffer) == to_str(Drop(buffer.bytes, buffer.pos))

\* a call that does not wait for the lock
CwdLockIgnored == TRUE

\* with CWD_LOCK: the lock is free
CwdLockFree == cwdLock = NoThread

\* substitute_attr / redirect_io: the setattr after the yield runs when the
\* body of the with statement ends without an exception
Restores(end) == end = "return"

\* nothing is suppressed
SuppressedNone(end) == FALSE

\* every exception is suppressed
SuppressedAll(end) == TRUE

\* with contextlib.suppress(SystemExit)
Suppressed(end) == end = "SystemExit"

\* whether _run_module / _run_api raises to run_module / run_api
Raises(end) == end # "return" /\ ~Suppressed(end)

\* CustomIO.get_value(): seek(0), read()
get_value(buffer) == buffer

\* the with statements of _run_module / _run_api on the way in
Redirected(old, id, args) ==
    [argv |-> args.argv, stdout |-> id, stderr |-> id,
     stdin |-> IF args.use_stdin /\ args.source # None THEN id ELSE old.stdin]

\* the with statements of _run_module / _run_api on the way out, innermost first
Unwound(cur, old, args, end) ==
    IF Restores(end)
    THEN [argv |-> old.argv, stdout |-> old.stdout, stderr |-> old.stderr,
          stdin |-> IF args.use_stdin /\ args.source # None THEN old.stdin
                    ELSE cur.stdin]
    ELSE cur

\* change_cwd on the way out: os.chdir(SERVER_CWD) runs when its body ends
\* without an exception
CwdAfter(cur, changed, end) ==
    IF changed /\ ~Raises(end) THEN SERVER_CWD ELSE cur

\* run_module / run_api up to the point where the target gets control: take
\* CWD_LOCK, change the directory if cwd is another one, create the capture
\* buffers, replace sys.argv and the streams
HarnessEnter(t) ==
    /\ hpc[t] = "idle"
    /\ CwdLockFree
    /\ ncalls < MaxCalls
    /\ \E entry \in {"run_module", "run_api"}, args \in HarnessArgs :
          /\ call' = [NoCall EXCEPT
                        !.id = ncalls + 1, !.entry = entry, !.args = args,
                        !.phase = "target",
                        !.before = [sys |-> sys, cwd |-> cwd],
                        !.old = sys,
                        !.changed = ~is_same_path(cwd, args.cwd),
                        !.input = IF args.use_stdin /\ args.source # None
                                  THEN StdinSeek(StdinWrite(SourceText(args.source)))
                                  ELSE NoInput]
          /\ cwd' = IF is_same_path(cwd, args.cwd) THEN cwd ELSE NormPath(args.cwd)
          /\ sys' = Redirected(sys, ncalls + 1, args)
    /\ cwdLock' = t
    /\ ncalls' = ncalls + 1
    /\ hpc' = [hpc EXCEPT ![t] = "target"]
    /\ UNCHANGED <<codecVars, chanVars, workerVars, supVars>>

\* the target writes to sys.stdout
TargetWriteOut(t) ==
    /\ hpc[t] = "target"
    /\ Len(call.wroteOut) + Len(call.wroteErr) < MaxWrites
    /\ call' = [call EXCEPT
                  !.wroteOut = Append(@, "partial"),
                  !.out = IF sys.stdout = call.id THEN Append(@, "partial") ELSE @]
    /\ UNCHANGED <<sys, cwd, cwdLock, hpc, ncalls, codecVars, chanVars, workerVars, supVars>>

\* the target writes to sys.stderr
TargetWriteErr(t) ==
    /\ hpc[t] = "target"
    /\ Len(call.wroteOut) + Len(call.wroteErr) < MaxWrites
    /\ call' = [call EXCEPT
                  !.wroteErr = Append(@, "warning"),
                  !.err = IF sys.stderr = call.id THEN Append(@, "warning") ELSE @]
    /\ UNCHANGED <<sys, cwd, cwdLock, hpc, ncalls, codecVars, chanVars, workerVars, supVars>>

\* the target ends; the with statements unwind, run_module / run_api returns
\* its RunResult or raises, and CWD_LOCK is released
TargetEnd(t) ==
    /\ hpc[t] = "target"
    /\ \E end \in Ends :
          /\ sys' = Unwound(sys, call.old, call.args, end)
          /\ cwd' = CwdAfter(cwd, call.changed, end)
          /\ call' = [call EXCEPT
                        !.phase = "finished",
                        !.end = end,
                        !.result =
                            IF Raises(end) THEN [kind |-> "raised", exc |-> end]
                            ELSE [kind |-> "returned",
                                  stdout |-> get_value(call.out),
                                  stderr |-> get_value(call.err)]]
    /\ cwdLock' = NoThread
    /\ hpc' = [hpc EXCEPT ![t] = "idle"]
    /\ UNCHANGED <<ncalls, codecVars, chanVars, workerVars, supVars>>

HarnessNext ==
    \/ \E t \in Callers : HarnessEnter(t)
    \/ \E t \in Callers : TargetWriteOut(t)
    \/ \E t \in Callers : TargetWriteErr(t)
    \/ \E t \in Callers : TargetEnd(t)

HarnessInit == CodecIdle /\ ChanIdle /\ HarnessIdle /\ WorkerIdle /\ SupIdle

SpecHarness == HarnessInit /\ [][HarnessNext]_vars

Finished == call.phase = "finished"

\* C2: after any Harness call, however its target ended, sys.argv, sys.stdout,
\* sys.stderr and sys.stdin are what they were immediately before the call.
StreamsRestored == Finished => sys = call.before.sys

\* C3: after any Harness call whose cwd differs from the working directory, the
\* working directory is the one that was current immediately before the call.
CwdRestored ==
    (Finished /\ ~is_same_path(call.before.cwd, call.args.cwd)) =>
        cwd = call.before.cwd

\* C25: when use_stdin is true and a source is given, the target is given
\* control with sys.stdin replaced by the buffer created for this call, which
\* holds exactly the source and stands at position zero.
StdinIsSource ==
    (call.phase = "target" /\ call.args.use_stdin /\ call.args.source # None) =>
        /\ sys.stdin = call.id
        /\ sys.stdin # call.before.sys.stdin
        /\ call.input.pos = 0
        /\ StdinRead(call.input) = SourceText(call.args.source)

\* the target of a run_api call with a source has control, in a call that
\* follows a call whose target read another source and faulted
StdinIsSourceWitness ==
    /\ call.phase = "target"
    /\ call.entry = "run_api"
    /\ call.args.use_stdin
    /\ call.args.source = "code"
    /\ call.before.sys.stdin # RealStream
    /\ sys.stdin = call.id
    /\ StdinRead(call.input) = <<Ch.a, Ch.cr, Ch.lf, Ch.eacute>>

\* C29: at most one Harness call of the process executes its target at a time,
\* the thread that does holds CWD_LOCK whether or not its call changed the
\* directory, and the lock is free when no call is in progress, also after a
\* call whose target faulted.
OneHarnessCallAtATime ==
    /\ Cardinality({t \in Callers : hpc[t] = "target"}) <= 1
    /\ \A t \in Callers : hpc[t] = "target" <=> cwdLock = t
    /\ (\A t \in Callers : hpc[t] = "idle") => cwdLock = NoThread

\* the second thread runs a target in a call that needs no directory change,
\* after a call of the first thread that changed the directory and faulted
OneHarnessCallWitness ==
    /\ hpc[2] = "target"
    /\ hpc[1] = "idle"
    /\ cwdLock = 2
    /\ call.id >= 2
    /\ ~call.changed
    /\ call.before.cwd = "/proj"

\* C7, as claimed: when the target raises an exception other than SystemExit, the
\* Harness call does not raise and returns the output captured up to the fault.
FaultReturnsOutput ==
    (Finished /\ call.end = "Exception") =>
        /\ call.result.kind = "returned"
        /\ call.result.stdout = call.wroteOut
        /\ call.result.stderr = call.wroteErr

\* C7, amended: when the target raises an exception other than SystemExit, the
\* Harness call raises that exception to its caller and returns no RunResult.
FaultPropagates ==
    (Finished /\ call.end = "Exception") =>
        call.result = [kind |-> "raised", exc |-> "Exception"]

\* the target of a run_module call and the target of a run_api call wrote to
\* both streams and then raised
FaultPropagatesWitness ==
    /\ Finished
    /\ call.end = "Exception"
    /\ call.entry = "run_api"
    /\ call.wroteOut # <<>>
    /\ call.wroteErr # <<>>
    /\ call.result.kind = "raised"

Targets ==
    [out : {<<>>, <<"partial">>}, err : {<<>>, <<"warning">>}, end : Ends]

RequestFields == {"method", "id", "module", "argv", "useStdin", "cwd"}

\* requests with every required field; source may be absent
RunRequests ==
    [method : {"run"}, missing : {None}, target : Targets, cwd : {"/srv", "/proj"},
     use_stdin : BOOLEAN, source : {None, "code"}]

\* a request as the log keeps it: read by the loop (RPC.receive_data()), or by
\* the target of the request before it
Received(msg) == [method |-> msg.method, missing |-> msg.missing, reader |-> "loop"]

\* requests that lack one field, and requests with another method
OtherRequests ==
    [method : {"run"}, missing : RequestFields,
     target : {[out |-> <<"partial">>, err |-> <<>>, end |-> "return"]},
     cwd : {"/proj"}, use_stdin : {FALSE}, source : {None}]
    \cup
    [method : {"exit", "ping"}, missing : {None},
     target : {[out |-> <<>>, err |-> <<>>, end |-> "return"]},
     cwd : {"/proj"}, use_stdin : {FALSE}, source : {None}]

Requests == RunRequests \cup OtherRequests

Looping == ~EXIT_NOW /\ crashed = None

\* traceback.format_exc(chain=True)
format_exc == <<"Traceback">>

\* utils.RunResult
RunResult(stdout, stderr) == [stdout |-> stdout, stderr |-> stderr]

\* the arguments of utils.run_module name a field the request lacks
ArgsKeyError(msg) == msg.missing \in {"module", "argv", "useStdin", "cwd"}

MsgArgs(msg) ==
    [argv |-> "--flag", use_stdin |-> msg.use_stdin, cwd |-> msg.cwd,
     source |-> msg.source]

\* the worker's standard input, on which the requests arrive, is sys.stdin of
\* the target of this request
ReadsTransport(msg) ==
    /\ ~ArgsKeyError(msg)
    /\ msg.use_stdin
    /\ Redirected(sys, ncalls + 1, MsgArgs(msg)).stdin = RealStream

\* the try statement of the run branch raised into its except clause
RunRaised(msg) == ArgsKeyError(msg) \/ Raises(msg.target.end)

\* result, after the try statement of the run branch
RunOutcome(msg) ==
    IF RunRaised(msg) THEN RunResult(<<>>, format_exc)
    ELSE RunResult(get_value(msg.target.out), get_value(msg.target.err))

NoField == <<>>

\* a response that prefers the captured stdout
BuildResponseStdoutFirst(id, result, is_exception) ==
    IF result.stdout # <<>>
    THEN [id |-> id, has |-> {"result"}, result |-> result.stdout,
          error |-> NoField, exception |-> FALSE]
    ELSE IF result.stderr # <<>>
    THEN [id |-> id, has |-> {"error", "exception"}, result |-> NoField,
          error |-> result.stderr, exception |-> is_exception]
    ELSE [id |-> id, has |-> {}, result |-> NoField, error |-> NoField,
          exception |-> FALSE]

\* response = {"id": msg["id"]}; if result.stderr: ... elif result.stdout: ...
BuildResponse(id, result, is_exception) ==
    IF result.stderr # <<>>
    THEN [id |-> id, has |-> {"error", "exception"}, result |-> NoField,
          error |-> result.stderr, exception |-> is_exception]
    ELSE IF result.stdout # <<>>
    THEN [id |-> id, has |-> {"result"}, result |-> result.stdout,
          error |-> NoField, exception |-> FALSE]
    ELSE [id |-> id, has |-> {}, result |-> NoField, error |-> NoField,
          exception |-> FALSE]

\* lsp_jsonrpc.RpcRunResult
RpcRunResult(stdout, stderr, exception) ==
    [stdout |-> stdout, stderr |-> stderr, exception |-> exception]

\* f"Invalid result for request: {json.dumps(msg, indent=4)}"
InvalidResult == <<"Invalid result for request">>

\* a reading of the response that reports the error text as stderr whatever the
\* exception flag
RpcRunResultErrorAsStderr(msg_id, data) ==
    IF data.id # msg_id THEN RpcRunResult(<<>>, InvalidResult, NoException)
    ELSE RpcRunResult(IF "result" \in data.has THEN data.result ELSE <<>>,
                      IF "error" \in data.has THEN data.error ELSE <<>>,
                      NoException)

\* a reading of the response that does not look at its id
RpcRunResultAnyId(msg_id, data) ==
    RpcRunResult(IF "result" \in data.has THEN data.result ELSE <<>>, <<>>,
                 NoException)

\* run_over_json_rpc, from data = rpc.receive_data() to its return
RpcRunResultOf(msg_id, data) ==
    IF data.id # msg_id THEN RpcRunResult(<<>>, InvalidResult, NoException)
    ELSE LET result == IF "result" \in data.has THEN data.result ELSE <<>>
         IN IF "error" \in data.has
            THEN IF "exception" \in data.has /\ data.exception
                 THEN RpcRunResult(result, <<>>, data.error)
                 ELSE RpcRunResult(result, data.error, NoException)
            ELSE RpcRunResult(result, <<>>, NoException)

\* sys and the working directory after run_module(args) whose target ends with end
SysAfterRun(args, end) ==
    Unwound(Redirected(sys, ncalls + 1, args), sys, args, end)

CwdAfterRun(args, end) ==
    CwdAfter(IF is_same_path(cwd, args.cwd) THEN cwd ELSE NormPath(args.cwd),
             ~is_same_path(cwd, args.cwd), end)

\* method = msg["method"] raises KeyError: the loop and the process end
WorkerNoMethod ==
    /\ Looping
    /\ nrecv < MaxRequests
    /\ \E msg \in Requests :
          /\ msg.missing = "method"
          /\ crashed' = "KeyError"
          /\ recvLog' = Append(recvLog, Received(msg))
    /\ nrecv' = nrecv + 1
    /\ UNCHANGED <<EXIT_NOW, handled, sentIds, rpc_run, codecVars, chanVars, harnessVars,
                   supVars>>

\* if method == "exit": EXIT_NOW = True
WorkerExit ==
    /\ Looping
    /\ nrecv < MaxRequests
    /\ \E msg \in Requests :
          /\ msg.missing # "method"
          /\ msg.method = "exit"
          /\ EXIT_NOW' = TRUE
          /\ recvLog' = Append(recvLog, Received(msg))
    /\ nrecv' = nrecv + 1
    /\ UNCHANGED <<crashed, handled, sentIds, rpc_run, codecVars, chanVars, harnessVars,
                   supVars>>

\* a method that is neither "exit" nor "run": the loop goes on, nothing is sent
WorkerOtherMethod ==
    /\ Looping
    /\ nrecv < MaxRequests
    /\ \E msg \in Requests :
          /\ msg.missing # "method"
          /\ msg.method \notin {"exit", "run"}
          /\ recvLog' = Append(recvLog, Received(msg))
    /\ nrecv' = nrecv + 1
    /\ UNCHANGED <<EXIT_NOW, crashed, handled, sentIds, rpc_run, codecVars, chanVars,
                   harnessVars, supVars>>

\* if method == "run": call utils.run_module, build the response and send it;
\* msg["id"] is read after the try statement, outside it.  A target whose
\* sys.stdin is the worker's standard input may read from it: it then reads
\* the frame of the request that follows, which the loop never receives.
WorkerRun ==
    /\ Looping
    /\ nrecv < MaxRequests
    /\ \E msg \in Requests :
          /\ msg.missing # "method"
          /\ msg.method = "run"
          /\ \E reads \in (IF ReadsTransport(msg) /\ nrecv + 2 <= MaxRequests
                            THEN BOOLEAN ELSE {FALSE}) :
                /\ recvLog' =
                      Append(recvLog, Received(msg)) \o
                      (IF reads
                       THEN <<[method |-> "run", missing |-> None, reader |-> "target"]>>
                       ELSE <<>>)
                /\ nrecv' = nrecv + (IF reads THEN 2 ELSE 1)
          /\ IF ArgsKeyError(msg)
             THEN UNCHANGED <<sys, cwd, ncalls>>
             ELSE /\ sys' = SysAfterRun(MsgArgs(msg), msg.target.end)
                  /\ cwd' = CwdAfterRun(MsgArgs(msg), msg.target.end)
                  /\ ncalls' = ncalls + 1
          /\ IF msg.missing = "id"
             THEN /\ crashed' = "KeyError"
                  /\ UNCHANGED <<handled, sentIds>>
             ELSE /\ handled' =
                        [id |-> nrecv + 1,
                         msg |-> msg,
                         stdin |-> IF ArgsKeyError(msg) THEN RealStream
                                   ELSE Redirected(sys, ncalls + 1, MsgArgs(msg)).stdin,
                         raised |-> RunRaised(msg),
                         result |-> IF RunRaised(msg) THEN None
                                    ELSE RunOutcome(msg),
                         response |-> BuildResponse(nrecv + 1, RunOutcome(msg),
                                                    RunRaised(msg))]
                  /\ sentIds' = Append(sentIds, nrecv + 1)
                  /\ UNCHANGED crashed
    /\ UNCHANGED <<EXIT_NOW, rpc_run, cwdLock, hpc, call, codecVars, chanVars, supVars>>

\* RPC.receive_data() raises EOFError: the client end of the pipe is closed
WorkerEndOfStream ==
    /\ Looping
    /\ crashed' = "EOFError"
    /\ UNCHANGED <<EXIT_NOW, nrecv, recvLog, handled, sentIds, rpc_run, codecVars,
                   chanVars, harnessVars, supVars>>

\* the call waiting on the worker's stdout reads the response just sent; its own
\* request was the one answered or, on a shared Channel, an earlier one
ReadResponse ==
    /\ handled.id > 0
    /\ rpc_run.id # handled.id
    /\ \E msg_id \in {handled.id, handled.id - 1} :
          /\ msg_id > 0
          /\ rpc_run' = [id |-> handled.id, msg_id |-> msg_id,
                         result |-> RpcRunResultOf(msg_id, handled.response)]
    /\ UNCHANGED <<EXIT_NOW, crashed, nrecv, recvLog, handled, sentIds, codecVars,
                   chanVars, harnessVars, supVars>>

WorkerNext ==
    \/ WorkerNoMethod
    \/ WorkerExit
    \/ WorkerOtherMethod
    \/ WorkerRun
    \/ WorkerEndOfStream
    \/ ReadResponse

WorkerInit == CodecIdle /\ ChanIdle /\ HarnessIdle /\ WorkerIdle /\ SupIdle

SpecWorker == WorkerInit /\ [][WorkerNext]_vars

\* C9: the command loop ends only on an "exit" request or a transport fault; a
\* request that lacks a field is answered with an error response and the loop
\* goes on.
LoopSurvivesBadRequests ==
    /\ crashed \in {None, "EOFError"}
    /\ (handled.id > 0 /\ handled.msg.missing # None) =>
          "error" \in handled.response.has

\* the ids of the run requests among the i-th and later requests received that
\* carry a method and an id, in the order received
RECURSIVE RunIdsFrom(_)
RunIdsFrom(i) ==
    IF i > Len(recvLog) THEN <<>>
    ELSE (IF recvLog[i].method = "run" /\ recvLog[i].missing \notin {"method", "id"}
          THEN <<i>> ELSE <<>>) \o RunIdsFrom(i + 1)

\* C26: the responses sent are, in the order of the requests, exactly one for
\* each run request that reached the worker with an id, each sent before the
\* next request is read; an exit request gets no response and is the last
\* request processed.
ResponsesInRequestOrder ==
    /\ Len(recvLog) = nrecv
    /\ sentIds = RunIdsFrom(1)
    /\ \A i \in 1..Len(recvLog) :
          (recvLog[i].method = "exit" /\ recvLog[i].missing # "method") =>
              i = Len(recvLog)

\* C28: the target of a run request with useStdin true never has the worker's
\* real standard input, the stream the requests arrive on, as its sys.stdin,
\* whether or not the request carries a source.
TargetStdinIsPrivate ==
    (handled.id > 0 /\ handled.msg.use_stdin /\ ~ArgsKeyError(handled.msg)) =>
        handled.stdin # RealStream

\* C10: the response to a run request carries the request's id; if the Harness
\* call raised, error is the formatted fault and exception is true; else if the
\* captured stderr is not empty, error is that text and exception is false; else
\* if the captured stdout is not empty, result is that text.
ResponsePriority ==
    handled.id > 0 =>
        LET resp == handled.response
        IN /\ resp.id = handled.id
           /\ resp.id = sentIds[Len(sentIds)]
           /\ handled.raised =>
                 /\ resp.has = {"error", "exception"}
                 /\ resp.error = format_exc
                 /\ resp.exception = TRUE
           /\ (~handled.raised /\ handled.result.stderr # <<>>) =>
                 /\ resp.has = {"error", "exception"}
                 /\ resp.error = handled.msg.target.err
                 /\ resp.exception = FALSE
           /\ (~handled.raised /\ handled.result.stderr = <<>>
                 /\ handled.result.stdout # <<>>) =>
                 /\ resp.has = {"result"}
                 /\ resp.result = handled.msg.target.out

\* the second request ran a target that wrote to both streams and stopped with
\* SystemExit: the response carries the stderr text, not the stdout text
ResponsePriorityWitness ==
    /\ handled.id = 2
    /\ handled.msg.target = [out |-> <<"partial">>, err |-> <<"warning">>,
                             end |-> "SystemExit"]
    /\ handled.response.error = <<"warning">>
    /\ sentIds = <<1, 2>>

\* the response that was read, for a call whose request it answers
Answered == rpc_run.id > 0 /\ rpc_run.id = handled.id /\ rpc_run.msg_id = handled.id

\* C19 as stated: for a reply whose id matches the request, stdout is
\* reply.result, or empty when absent; if reply.error is present, stderr is
\* reply.error and exception is given as reply.exception says; otherwise stderr is
\* empty.
ReplyErrorIsStderr ==
    Answered =>
        LET data == handled.response
            res == rpc_run.result
        IN /\ res.stdout = (IF "result" \in data.has THEN data.result ELSE <<>>)
           /\ "error" \in data.has =>
                 /\ res.stderr = data.error
                 /\ (res.exception # NoException) <=> data.exception
           /\ "error" \notin data.has => res.stderr = <<>>

\* C19: for a reply whose id matches the request, stdout is reply.result, or
\* empty when absent; if reply.error is present and reply.exception is true, the
\* error text is returned as exception and stderr is empty; if reply.error is
\* present and reply.exception is false or absent, stderr is reply.error and no
\* exception is given; otherwise stderr is empty and no exception is given.
ReplyErrorSplit ==
    Answered =>
        LET data == handled.response
            res == rpc_run.result
        IN /\ res.stdout = (IF "result" \in data.has THEN data.result ELSE <<>>)
           /\ ("error" \in data.has /\ data.exception) =>
                 /\ res.stderr = <<>>
                 /\ res.exception = data.error
           /\ ("error" \in data.has /\ ~data.exception) =>
                 /\ res.stderr = data.error
                 /\ res.exception = NoException
           /\ "error" \notin data.has =>
                 /\ res.stderr = <<>>
                 /\ res.exception = NoException

\* the target of the answered request raised: the response carries the traceback
\* with exception true, and the call returns it as exception with empty stderr
ReplyErrorSplitWitness ==
    /\ Answered
    /\ handled.raised
    /\ handled.response.error = format_exc
    /\ rpc_run.result = RpcRunResult(<<>>, <<>>, format_exc)

(***************************************************************************)
(* Spec: caller threads in run_over_json_rpc, the ProcessManager, its      *)
(* monitor tasks, the worker processes and the host's teardown.            *)
(*                                                                         *)
(* A process is known by its place in procs; its JsonRpc has the same      *)
(* number.  A frame on a pipe is the id of the message it carries, and the *)
(* msg_id of a call is the number of the call; ExitFrame is an exit        *)
(* request.  A worker answers the requests on its stdin in order           *)
(* (SpecWorker has the loop in detail), its tools write nothing, and it    *)
(* may exit at any time.  The host starts no call once its teardown has    *)
(* begun; calls in progress go on.  The monitor tasks of a run are fewer   *)
(* than the threads of the pool (SpecPool has the pool).                   *)
(***************************************************************************)
NewProc(w) ==
    [workspace |-> w, alive |-> TRUE, stdin |-> <<>>, stdout |-> <<>>,
     closed |-> FALSE, monitor |-> "none", exit_now |-> FALSE]

Procs == 1..Len(procs)

\* {"id": str(uuid.uuid4()), "method": "exit"}
ExitFrame == 0

\* with self._lock, as a thread that takes and releases it in one step
RegistryLockFree == m_lock = NoHolder

Raise(t, exc) ==
    /\ tres' = [tres EXCEPT ![t] = [NoOutcome EXCEPT !.kind = "raised", !.exc = exc,
                                                     !.id = tloc[t].msg_id]]
    /\ tloc' = [tloc EXCEPT ![t] = NoLocals]
    /\ tpc' = [tpc EXCEPT ![t] = "idle"]

\* run_over_json_rpc -> get_or_start_json_rpc: res = _get_json_rpc(workspace)
GetJsonRpc(t, w) ==
    /\ tpc[t] = "idle"
    /\ nruns < MaxRuns
    /\ host = "running"
    /\ RegistryLockFree
    /\ tloc' = [tloc EXCEPT ![t] = [NoLocals EXCEPT !.workspace = w,
                                                    !.rpc = m_rpc[w],
                                                    !.msg_id = nruns + 1,
                                                    !.prev = returned[w]]]
    /\ tpc' = [tpc EXCEPT ![t] = IF m_rpc[w] = NoProc THEN "start_process"
                                ELSE "send"]
    /\ returned' = IF m_rpc[w] # NoProc /\ procs[m_rpc[w]].alive
                   THEN [returned EXCEPT ![w] = m_rpc[w]]
                   ELSE returned
    /\ nruns' = nruns + 1
    /\ tres' = [tres EXCEPT ![t] = NoOutcome]
    /\ UNCHANGED <<procs, regVars, stopVars, pool, codecVars, chanVars, harnessVars,
                   workerVars>>

\* start_process: proc = subprocess.Popen(...), which raises OSError when the
\* interpreter cannot be run; self._processes[workspace] = proc
StartProcess(t) ==
    /\ tpc[t] = "start_process"
    /\ \/ /\ Len(procs) < MaxProcs
          /\ procs' = Append(procs, NewProc(tloc[t].workspace))
          /\ m_processes' = [m_processes EXCEPT ![tloc[t].workspace] = Len(procs) + 1]
          /\ tloc' = [tloc EXCEPT ![t].proc = Len(procs) + 1]
          /\ tpc' = [tpc EXCEPT ![t] = "register"]
          /\ UNCHANGED tres
       \/ /\ Raise(t, "OSError")
          /\ UNCHANGED <<procs, m_processes>>
    /\ UNCHANGED <<m_rpc, m_lock, nruns, returned, stopVars, pool, codecVars,
                   chanVars, harnessVars, workerVars>>

\* start_process: self._rpc[workspace] = create_json_rpc(...);
\* self._thread_pool.submit(_monitor_process), which raises RuntimeError once
\* the pool is shut down
RegisterRpc(t) ==
    /\ tpc[t] = "register"
    /\ m_rpc' = [m_rpc EXCEPT ![tloc[t].workspace] = tloc[t].proc]
    /\ IF pool_down
       THEN /\ Raise(t, "RuntimeError")
            /\ UNCHANGED procs
       ELSE /\ procs' = [procs EXCEPT ![tloc[t].proc].monitor = "waiting"]
            /\ tpc' = [tpc EXCEPT ![t] = "get_again"]
            /\ UNCHANGED <<tloc, tres>>
    /\ UNCHANGED <<m_processes, m_lock, nruns, returned, stopVars, pool, codecVars,
                   chanVars, harnessVars, workerVars>>

\* get_or_start_json_rpc: res = _get_json_rpc(workspace) after start_process;
\* run_over_json_rpc: if not rpc: raise Exception("Failed to run over JSON-RPC.")
GetJsonRpcAgain(t) ==
    /\ tpc[t] = "get_again"
    /\ RegistryLockFree
    /\ IF m_rpc[tloc[t].workspace] = NoProc
       THEN /\ Raise(t, "Failed to run over JSON-RPC.")
            /\ UNCHANGED returned
       ELSE /\ tloc' = [tloc EXCEPT ![t].rpc = m_rpc[tloc[t].workspace]]
            /\ tpc' = [tpc EXCEPT ![t] = "send"]
            /\ returned' = IF procs[m_rpc[tloc[t].workspace]].alive
                           THEN [returned EXCEPT ![tloc[t].workspace] =
                                                     m_rpc[tloc[t].workspace]]
                           ELSE returned
            /\ UNCHANGED tres
    /\ UNCHANGED <<procs, regVars, nruns, stopVars, pool, codecVars, chanVars,
                   harnessVars, workerVars>>

\* msg_id = str(uuid.uuid4()); rpc.send_data(msg)
SendRequest(t) ==
    /\ tpc[t] = "send"
    /\ LET p == tloc[t].rpc
       IN IF procs[p].closed
          THEN /\ Raise(t, "StreamClosedException")
               /\ UNCHANGED procs
          ELSE IF ~procs[p].alive
          THEN /\ Raise(t, "BrokenPipeError")
               /\ UNCHANGED procs
          ELSE /\ procs' = [procs EXCEPT ![p].stdin = Append(@, tloc[t].msg_id)]
               /\ tpc' = [tpc EXCEPT ![t] = "receive"]
               /\ UNCHANGED <<tloc, tres>>
    /\ UNCHANGED <<regVars, nruns, returned, stopVars, pool, codecVars, chanVars,
                   harnessVars, workerVars>>

\* the response of a worker to the run request with this id
Response(id) == BuildResponse(id, RunResult(<<>>, <<>>), FALSE)

\* a pipe that does not report the end of the stream
ReadReadyNoEof(p) == procs[p].closed \/ procs[p].stdout # <<>>

\* reader.readline() returns: the stream was closed, or it has bytes, or its
\* writing end is closed because the worker has exited
ReadReady(p) == procs[p].closed \/ procs[p].stdout # <<>> \/ ~procs[p].alive

\* data = rpc.receive_data(), and the RpcRunResult made from it; the read blocks
\* while the worker lives and has written nothing
ReceiveReply(t) ==
    /\ tpc[t] = "receive"
    /\ LET p == tloc[t].rpc
       IN /\ ReadReady(p)
          /\ IF procs[p].closed
             THEN /\ Raise(t, "StreamClosedException")
                  /\ UNCHANGED procs
             ELSE IF procs[p].stdout = <<>>
             THEN /\ Raise(t, "EOFError")
                  /\ UNCHANGED procs
             ELSE /\ procs' = [procs EXCEPT ![p].stdout = Tail(@)]
                  /\ tres' = [tres EXCEPT ![t] =
                                 [NoOutcome EXCEPT
                                     !.kind = "returned",
                                     !.id = tloc[t].msg_id,
                                     !.got = Head(procs[p].stdout),
                                     !.result =
                                         RpcRunResultOf(tloc[t].msg_id,
                                                        Response(Head(procs[p].stdout)))]]
                  /\ tloc' = [tloc EXCEPT ![t] = NoLocals]
                  /\ tpc' = [tpc EXCEPT ![t] = "idle"]
    /\ UNCHANGED <<regVars, nruns, returned, stopVars, pool, codecVars, chanVars,
                   harnessVars, workerVars>>

\* a worker of the workspace has exited: a call made from now on is not one made
\* with no worker exit since the earlier calls
AfterExit(w) ==
    /\ returned' = [returned EXCEPT ![w] = NoProc]
    /\ tloc' = [t \in Threads |->
                   IF tloc[t].workspace = w THEN [tloc[t] EXCEPT !.prev = NoProc]
                   ELSE tloc[t]]

\* a worker handles the next request on its stdin: it sends the response to a
\* run request, and ends its loop and exits on an exit request
WorkerServe(p) ==
    /\ p \in Procs
    /\ procs[p].alive
    /\ procs[p].stdin # <<>>
    /\ IF Head(procs[p].stdin) = ExitFrame
       THEN /\ procs' = [procs EXCEPT ![p].alive = FALSE, ![p].exit_now = TRUE,
                                      ![p].stdin = <<>>]
            /\ AfterExit(procs[p].workspace)
       ELSE /\ procs' = [procs EXCEPT ![p].stdin = Tail(@),
                                      ![p].stdout = Append(@, Head(procs[p].stdin))]
            /\ UNCHANGED <<returned, tloc>>
    /\ UNCHANGED <<regVars, tpc, tres, nruns, stopVars, pool, codecVars, chanVars,
                   harnessVars, workerVars>>

\* a worker process ends; what it has not read from its stdin is lost
WorkerDies(p) ==
    /\ procs[p].alive
    /\ procs' = [procs EXCEPT ![p].alive = FALSE, ![p].stdin = <<>>]
    /\ AfterExit(procs[p].workspace)
    /\ UNCHANGED <<regVars, tpc, tres, nruns, stopVars, pool, codecVars, chanVars,
                   harnessVars, workerVars>>

\* _monitor_process: proc.wait() has returned; with self._lock:
\* del self._processes[workspace], or KeyError and the bare except
MonitorDelete(p) ==
    /\ p \in Procs
    /\ procs[p].monitor = "waiting"
    /\ ~procs[p].alive
    /\ RegistryLockFree
    /\ IF m_processes[procs[p].workspace] = NoProc
       THEN /\ procs' = [procs EXCEPT ![p].monitor = "done"]
            /\ UNCHANGED <<m_processes, m_lock>>
       ELSE /\ m_processes' = [m_processes EXCEPT ![procs[p].workspace] = NoProc]
            /\ m_lock' = <<"monitor", p>>
            /\ procs' = [procs EXCEPT ![p].monitor = "pop"]
    /\ UNCHANGED <<m_rpc, callVars, returned, stopVars, pool, codecVars, chanVars,
                   harnessVars, workerVars>>

\* _monitor_process: rpc = self._rpc.pop(workspace); rpc.close(), or KeyError and
\* the bare except; the lock is released
MonitorPop(p) ==
    /\ p \in Procs
    /\ procs[p].monitor = "pop"
    /\ LET r == m_rpc[procs[p].workspace]
       IN /\ m_rpc' = [m_rpc EXCEPT ![procs[p].workspace] = NoProc]
          /\ procs' = [q \in Procs |->
                          [procs[q] EXCEPT
                              !.closed = IF q = r THEN TRUE ELSE @,
                              !.monitor = IF q = p THEN "done" ELSE @]]
    /\ m_lock' = NoHolder
    /\ UNCHANGED <<m_processes, callVars, returned, stopVars, pool, codecVars,
                   chanVars, harnessVars, workerVars>>

\* the keys of a registry that have an entry
Registered(rpc) == {w \in Workspaces : rpc[w] # NoProc}

\* stop_all_processes is entered: for i in self._rpc.values() makes its iterator.
\* The handlers of lsp_server run one at a time and the interpreter exits after
\* them, so no call is in progress then.
StopAllBegin ==
    /\ stopper.pc = "idle"
    /\ \A t \in Threads : tpc[t] = "idle"
    /\ stopper' = [pc |-> "iter", snapshot |-> m_rpc, visited |-> {}, exc |-> None]
    /\ nstops' = nstops + 1

\* lsp_server.on_shutdown: jsonrpc.shutdown_json_rpc()
OnShutdown ==
    /\ host = "running"
    /\ host' = "shutdown"
    /\ StopAllBegin
    /\ UNCHANGED <<procs, regVars, callVars, returned, pool_down, pool, codecVars,
                   chanVars, harnessVars, workerVars>>

\* lsp_server.on_exit: jsonrpc.shutdown_json_rpc()
OnExit ==
    /\ host \in {"running", "shutdown"}
    /\ host' = "exit"
    /\ StopAllBegin
    /\ UNCHANGED <<procs, regVars, callVars, returned, pool_down, pool, codecVars,
                   chanVars, harnessVars, workerVars>>

\* atexit.register(_process_manager.stop_all_processes): the interpreter exits
AtExit ==
    /\ host # "atexit"
    /\ host' = "atexit"
    /\ StopAllBegin
    /\ UNCHANGED <<procs, regVars, callVars, returned, pool_down, pool, codecVars,
                   chanVars, harnessVars, workerVars>>

\* stop_all_processes, one pass of its loop: the iterator raises RuntimeError if
\* the dictionary has changed size; else it yields an entry, to which the exit
\* request is sent with any exception suppressed; or, exhausted, it ends the
\* loop and self._thread_pool.shutdown(wait=False) follows
StopAllNext ==
    /\ stopper.pc = "iter"
    /\ LET left == Registered(m_rpc) \ stopper.visited
       IN IF Cardinality(Registered(m_rpc)) # Cardinality(Registered(stopper.snapshot))
          THEN /\ stopper' = [stopper EXCEPT !.pc = "idle", !.exc = "RuntimeError"]
               /\ UNCHANGED <<procs, pool_down>>
          ELSE IF left = {}
          THEN /\ stopper' = [stopper EXCEPT !.pc = "idle"]
               /\ pool_down' = TRUE
               /\ UNCHANGED procs
          ELSE \E w \in left :
                  /\ stopper' = [stopper EXCEPT !.visited = @ \cup {w}]
                  /\ procs' = IF procs[m_rpc[w]].closed \/ ~procs[m_rpc[w]].alive
                              THEN procs
                              ELSE [procs EXCEPT ![m_rpc[w]].stdin =
                                                     Append(@, ExitFrame)]
                  /\ UNCHANGED pool_down
    /\ UNCHANGED <<regVars, callVars, returned, host, nstops, pool, codecVars,
                   chanVars, harnessVars, workerVars>>

\* calls for one workspace, its workers and their monitor tasks
Next ==
    \/ \E t \in Threads : GetJsonRpc(t, "ws")
    \/ \E t \in Threads : StartProcess(t)
    \/ \E t \in Threads : RegisterRpc(t)
    \/ \E t \in Threads : GetJsonRpcAgain(t)
    \/ \E t \in Threads : SendRequest(t)
    \/ \E t \in Threads : ReceiveReply(t)
    \/ \E p \in Procs : WorkerServe(p)
    \/ \E p \in Procs : WorkerDies(p)
    \/ \E p \in Procs : MonitorDelete(p)
    \/ \E p \in Procs : MonitorPop(p)

Init == CodecIdle /\ ChanIdle /\ HarnessIdle /\ WorkerIdle /\ SupIdle

Spec == Init /\ [][Next]_vars

\* Spec with every caller thread scheduled while it can read
FairCalls ==
    /\ Spec
    /\ \A t \in Threads : WF_vars(ReceiveReply(t))

\* SpecStop: a few calls for any workspace, and then the host's teardown
StopNext ==
    \/ \E t \in Threads, w \in Workspaces : nruns < MaxStopRuns /\ GetJsonRpc(t, w)
    \/ \E t \in Threads : StartProcess(t)
    \/ \E t \in Threads : RegisterRpc(t)
    \/ \E t \in Threads : GetJsonRpcAgain(t)
    \/ \E t \in Threads : SendRequest(t)
    \/ \E t \in Threads : ReceiveReply(t)
    \/ \E p \in Procs : WorkerServe(p)
    \/ \E p \in Procs : WorkerDies(p)
    \/ \E p \in Procs : MonitorDelete(p)
    \/ \E p \in Procs : MonitorPop(p)
    \/ OnShutdown
    \/ OnExit
    \/ AtExit
    \/ StopAllNext

StopInit == CodecIdle /\ ChanIdle /\ HarnessIdle /\ WorkerIdle /\ SupIdle

SpecStop == StopInit /\ [][StopNext]_vars

\* a monitor task whose process has exited runs, a worker reads the request on
\* its stdin, and stop_all_processes goes on, each of them in the end
FairStop ==
    /\ SpecStop
    /\ \A p \in 1..MaxProcs :
          /\ WF_vars(MonitorDelete(p))
          /\ WF_vars(MonitorPop(p))
          /\ WF_vars(WorkerServe(p))
    /\ WF_vars(StopAllNext)

LiveWorkers(w) == {p \in Procs : procs[p].workspace = w /\ procs[p].alive}

\* C1: whatever the interleaving of concurrent get_or_start_json_rpc calls for a
\* workspace, at most one worker process and registry entry is live for it.
OneWorkerPerWorkspace ==
    \A w \in Workspaces : Cardinality(LiveWorkers(w)) <= 1

\* C4: of two concurrent run_over_json_rpc calls for a workspace, the second does
\* not send on the shared Channel before the first has its reply, so each call
\* receives the response whose id is the id of its own request.
RepliesMatchRequests ==
    /\ \A p \in Procs :
          Cardinality({t \in Threads : tpc[t] = "receive" /\ tloc[t].rpc = p}) <= 1
    /\ \A t \in Threads : tres[t].kind = "returned" => tres[t].got = tres[t].id

\* C11: a call that begins when the worker registered for its workspace has
\* died is given no Channel of a dead worker: it goes on to spawn a fresh one.
RespawnAfterDeath ==
    [][\A t \in Threads :
          (/\ tpc[t] = "idle"
           /\ tpc'[t] # "idle"
           /\ m_rpc[tloc'[t].workspace] # NoProc
           /\ ~procs[m_rpc[tloc'[t].workspace]].alive)
          => tpc'[t] = "start_process"]_vars

\* C12: when a call's read ends with a framing error (here the end of the
\* stream), the Channel is then closed and no longer in the registry.
FramingErrorClosesChannel ==
    [][\A t \in Threads :
          (/\ tpc[t] = "receive"
           /\ tres'[t].kind = "raised"
           /\ tres'[t].exc = "EOFError")
          => /\ procs'[tloc[t].rpc].closed
             /\ m_rpc'[tloc[t].workspace] # tloc[t].rpc]_vars

\* C13: a get_or_start_json_rpc call made after an earlier one for the same
\* workspace has returned the Channel of a live worker, with no worker exit
\* since, spawns no process and returns that same Channel.
SequentialCallsShareChannel ==
    \A t \in Threads :
        tloc[t].prev # NoProc =>
            /\ tpc[t] \notin {"start_process", "register", "get_again"}
            /\ tpc[t] \in {"send", "receive"} => tloc[t].rpc = tloc[t].prev

\* C15: a Channel that is registered when stop_all_processes has completed, and
\* whose worker has processed the exit request, is closed in the end, so that
\* writes on it raise StreamClosedException.
ShutdownClosesChannels ==
    \A p \in 1..MaxProcs :
        (/\ p \in Procs
         /\ procs[p].exit_now
         /\ m_rpc[procs[p].workspace] = p
         /\ nstops > 0
         /\ stopper.pc = "idle"
         /\ stopper.exc = None)
        ~> (p \in Procs /\ procs[p].closed)

\* C16: when stop_all_processes has ended, every entry that was in the registry
\* when it began, and is still there with its worker running, has been sent an
\* exit request, also if monitor tasks removed other entries meanwhile.
StopAllReachesEveryEntry ==
    (nstops > 0 /\ stopper.pc = "idle") =>
        \A w \in Workspaces :
            (/\ stopper.snapshot[w] # NoProc
             /\ m_rpc[w] = stopper.snapshot[w]
             /\ procs[m_rpc[w]].alive)
            => w \in stopper.visited

\* C17: stop_all_processes is entered at most once in a run of the host.
ShutdownOnce == nstops <= 1

\* the exceptions that say no Channel could be obtained
Unavailable == {"Failed to run over JSON-RPC.", "OSError"}

\* C18: a run_over_json_rpc call that raises instead of returning raises because
\* no Channel could be obtained for the workspace.
RaisesOnlyWhenUnavailable ==
    \A t \in Threads : tres[t].kind = "raised" => tres[t].exc \in Unavailable

\* C20: a call that reads a reply whose id is not the id of its request returns
\* an RpcRunResult with empty stdout and the mismatch report as stderr, and the
\* step neither closes the Channel nor changes the registry.
MismatchIsReported ==
    [][\A t \in Threads :
          (/\ tpc[t] = "receive"
           /\ tres'[t].kind = "returned"
           /\ tres'[t].got # tres'[t].id)
          => /\ tres'[t].result = RpcRunResult(<<>>, InvalidResult, NoException)
             /\ ~procs'[tloc[t].rpc].closed
             /\ m_rpc' = m_rpc]_vars

\* a call has returned the mismatch report, and the Channel it read from is
\* open and in the registry
MismatchIsReportedWitness ==
    \E t \in Threads :
        /\ tres[t].kind = "returned"
        /\ tres[t].got # tres[t].id
        /\ tres[t].result.stderr = InvalidResult
        /\ \E w \in Workspaces :
              /\ m_rpc[w] # NoProc
              /\ ~procs[m_rpc[w]].closed
              /\ procs[m_rpc[w]].stdout = <<>>

\* C23: every step that inserts an entry into ProcessManager._processes or
\* ProcessManager._rpc, or removes one, is taken by the holder of
\* ProcessManager._lock (it takes the lock in that step, or holds it from an
\* earlier step); only monitor tasks hold the lock over more than one step.
RegistryMutatedUnderLock ==
    [][(m_processes' # m_processes \/ m_rpc' # m_rpc) =>
          \E p \in Procs :
              /\ procs'[p].monitor # procs[p].monitor
              /\ m_lock = <<"monitor", p>> \/ m_lock' = <<"monitor", p>>]_vars

\* C27: the steps of the monitor task of process p leave alone every other
\* process q that is still alive: q's entries in _processes and _rpc stay and
\* q's Channel is not closed.
MonitorRemovesOwnEntry ==
    [][\A p \in Procs :
          (procs[p].monitor \in {"waiting", "pop"}
           /\ procs'[p].monitor # procs[p].monitor) =>
              \A q \in Procs \ {p} :
                  procs[q].alive =>
                      /\ procs'[q].closed = procs[q].closed
                      /\ \A w \in Workspaces :
                            /\ m_rpc[w] = q => m_rpc'[w] = q
                            /\ m_processes[w] = q => m_processes'[w] = q]_vars

\* C30: a call that waits in rpc.receive_data() for the reply of a worker that
\* has exited does not wait for ever: its read ends.
BlockedReadEnds ==
    \A t \in Threads :
        (tpc[t] = "receive" /\ ~procs[tloc[t].rpc].alive) ~> (tpc[t] # "receive")

\* a call sent its request to a live worker, the worker exited without
\* answering, and the call's read ended with EOFError
BlockedReadEndsWitness ==
    \E t \in Threads :
        /\ tres[t].kind = "raised"
        /\ tres[t].exc = "EOFError"
        /\ \E p \in Procs : ~procs[p].alive /\ procs[p].stdout = <<>>

(***************************************************************************)
(* SpecPool: the monitor tasks on ProcessManager._thread_pool.  Each       *)
(* worker is started for a workspace of its own by one thread, so that     *)
(* nothing races; pool[i] is the i-th worker, its registry entry and its   *)
(* monitor task.                                                           *)
(***************************************************************************)
\* self._thread_pool = ThreadPoolExecutor(10)
max_workers == 10

PoolProcs == 1..Len(pool)

\* the monitor tasks that hold a thread of the pool
Running == {i \in PoolProcs : pool[i].monitor = "waiting"}

Queued == {i \in PoolProcs : pool[i].monitor = "queued"}

\* start_process for a new workspace: the process, its registry entry, and
\* self._thread_pool.submit(_monitor_process), which puts the task on the queue
PoolSubmit ==
    /\ Len(pool) < MaxPoolProcs
    /\ pool' = Append(pool, [alive |-> TRUE, registered |-> TRUE, closed |-> FALSE,
                             monitor |-> "queued"])
    /\ UNCHANGED <<procs, regVars, callVars, returned, stopVars, codecVars, chanVars,
                   harnessVars, workerVars>>

\* a thread of the pool takes the oldest task on the queue: there is a thread
\* for it if fewer than max_workers tasks are running; the task calls proc.wait()
PoolRun ==
    /\ Queued # {}
    /\ Cardinality(Running) < max_workers
    /\ LET i == CHOOSE q \in Queued : \A r \in Queued : q <= r
       IN pool' = [pool EXCEPT ![i].monitor = "waiting"]
    /\ UNCHANGED <<procs, regVars, callVars, returned, stopVars, codecVars, chanVars,
                   harnessVars, workerVars>>

\* a worker process exits
PoolWorkerExits(i) ==
    /\ i \in PoolProcs
    /\ pool[i].alive
    /\ Cardinality({q \in PoolProcs : ~pool[q].alive}) < MaxExits
    /\ pool' = [pool EXCEPT ![i].alive = FALSE]
    /\ UNCHANGED <<procs, regVars, callVars, returned, stopVars, codecVars, chanVars,
                   harnessVars, workerVars>>

\* _monitor_process: proc.wait() returns; the entry is removed, the Channel closed
PoolMonitorProcess(i) ==
    /\ i \in PoolProcs
    /\ pool[i].monitor = "waiting"
    /\ ~pool[i].alive
    /\ pool' = [pool EXCEPT ![i].registered = FALSE, ![i].closed = TRUE,
                            ![i].monitor = "done"]
    /\ UNCHANGED <<procs, regVars, callVars, returned, stopVars, codecVars, chanVars,
                   harnessVars, workerVars>>

PoolNext ==
    \/ PoolSubmit
    \/ PoolRun
    \/ \E i \in PoolProcs : PoolWorkerExits(i)
    \/ \E i \in PoolProcs : PoolMonitorProcess(i)

PoolInit == CodecIdle /\ ChanIdle /\ HarnessIdle /\ WorkerIdle /\ SupIdle

SpecPool == PoolInit /\ [][PoolNext]_vars

\* a free thread of the pool takes a queued task, and a monitor task whose
\* process has exited goes on, each of them in the end
FairPool ==
    /\ SpecPool
    /\ WF_vars(PoolRun)
    /\ \A i \in 1..MaxPoolProcs : WF_vars(PoolMonitorProcess(i))

\* C14: after a registered worker process exits, its registry entry is in the
\* end removed and its Channel closed by its monitor task, however many workers
\* are registered.
ExitedWorkerIsRemoved ==
    \A i \in 1..MaxPoolProcs :
        (i \in PoolProcs /\ ~pool[i].alive)
        ~> (i \in PoolProcs /\ ~pool[i].registered /\ pool[i].closed)

====
